---------------------------- MODULE Spec2Model ----------------------------
(***************************************************************************)
(* A model of convert_schema.py: the derivation of the knowledge base      *)
(* from a database schema (build_schema_rules), the Prolog rules that      *)
(* register_qeds adds, their evaluation by the engine (SLD resolution in   *)
(* clause order), and the report (report_on_qeds, get_unique_results).     *)
(*                                                                         *)
(* Five specifications share the variables:                                *)
(*   SpecPath    the engine evaluating tablesRelatedByPath(X, Y)           *)
(*   SpecRules   the queries of report_on_qeds over a derived kb           *)
(*   SpecDerive  main() deriving the kb table by table                     *)
(*   SpecReport  report_on_qeds and get_unique_results on engine answers   *)
(*   SpecUnique  get_unique_results alone, run twice on reordered dicts    *)
(***************************************************************************)
EXTENDS Integers, Sequences, FiniteSets, TLC

VARIABLES
    kb,        \* the knowledge base: the list of facts (kb in the code)
    pc,        \* where the program is
    queryX,    \* SpecPath: the X of the query tablesRelatedByPath(X, Y)
    stack,     \* SpecPath: the engine's frames of tablesRelatedByPath/3
    sols,      \* SpecPath: the solutions <<X, Y>> enumerated so far
    maxP,      \* SpecPath: the longest path list P of any call so far
    db,        \* the database: metadata.sorted_tables and what its queries return
    goal,      \* SpecRules: the goal last given to the engine
    answer,    \* SpecRules: what the engine answered
    ti,        \* SpecDerive: the table build_schema_rules is at
    ci,        \* SpecDerive: the column of that table
    fi,        \* SpecDerive: the foreign key of that column
    exception, \* the exception that ended main ("" while there is none)
    engine,    \* what prolog.query finds for each query: solutions, error
    raises,    \* whether an error of the engine surfaces as a PrologError
    query_string, \* the query get_unique_results is running
    pending,   \* the solutions prolog.query has still to hand over
    consumed,  \* the solutions handed over so far
    seen,      \* seen of get_unique_results
    unique,    \* the list list(get_unique_results(...)) is building
    lists,     \* the lists built so far, one for each finished query
    printed,   \* what has been printed
    issued     \* the queries put to the engine so far

pathVars == <<queryX, stack, sols, maxP>>

ruleVars == <<goal, answer>>

deriveVars == <<ti, ci, fi>>

reportVars ==
    <<engine, raises, query_string, pending, consumed, seen, unique, lists, printed, issued>>

vars == <<kb, pc, db, exception, pathVars, ruleVars, deriveVars, reportVars>>

\* ------------------------------------------------------------------ bounds

NumTables == 3
MaxRelated == 3
StackLimit == 8

NumColumns == 3

MaxKeys == 2

MaxSolutions == 3

\* ------------------------------------------------------------ sequences

Range(s) == {s[i] : i \in 1..Len(s)}

SeqsUpTo(S, n) == UNION {[1..k -> S] : k \in 0..n}

RECURSIVE Concat(_)
Concat(ss) == IF ss = <<>> THEN <<>> ELSE Head(ss) \o Concat(Tail(ss))

\* ---------------------------------------------------------------- facts

Unbound == "_"

Fact(p, a) == [pred |-> p, args |-> a]

TableName(i) == <<"t1", "t2", "t3", "t4", "t5">>[i]

RelName(i) == <<"r1", "r2", "r3", "r4", "r5", "r6">>[i]

Facts(p) ==
    LET IsP(f) == f.pred = p
    IN SelectSeq(kb, IsP)

Matches(pattern, value) == pattern = Unbound \/ pattern = value

\* ---------------------------------------------------- tablesDirectlyRelated

\* Mutant of TablesDirectlyRelated: the second clause alone, so that a foreign
\* key relates its tables in one direction only.
TablesDirectlyRelatedOneWay(X, Y) ==
    LET rel == Facts("related")
        Hit(pair) == Matches(X, pair[1]) /\ Matches(Y, pair[2])
        second == [i \in 1..Len(rel) |-> <<rel[i].args[1], rel[i].args[2]>>]
    IN SelectSeq(second, Hit)

\* tablesDirectlyRelated(X, Y) :- related(Y, X, R).
\* tablesDirectlyRelated(X, Y) :- related(X, Y, R).
\* The solutions <<X, Y>>, in clause order, of a call whose arguments are
\* bound to X and Y (Unbound: a free variable).
TablesDirectlyRelated(X, Y) ==
    LET rel == Facts("related")
        Hit(pair) == Matches(X, pair[1]) /\ Matches(Y, pair[2])
        first == [i \in 1..Len(rel) |-> <<rel[i].args[2], rel[i].args[1]>>]
        second == [i \in 1..Len(rel) |-> <<rel[i].args[1], rel[i].args[2]>>]
    IN SelectSeq(first, Hit) \o SelectSeq(second, Hit)

\* Mutant of NotMember: the guard left out of the second clause.
GuardLeftOut(Z, P) == TRUE

\* \+ member(Z, P)
NotMember(Z, P) == Z \notin Range(P)

\* The path list of the recursive call: [X|P]
ConsPath(X, P) == <<X>> \o P

\* tablesRelatedByPath(X, Y, P) :- tablesDirectlyRelated(X, Y).
\* tablesRelatedByPath(X, Y, P) :- tablesDirectlyRelated(Z, X),
\*     \+ member(Z, P), tablesRelatedByPath(Z, Y, [X|P]).
\* As a function: the solutions <<X, Y>> of tablesRelatedByPath(X, Y, P) with
\* Y free, in the order the engine finds them.
RECURSIVE TablesRelatedByPath3(_, _)
TablesRelatedByPath3(X, P) ==
    LET base == TablesDirectlyRelated(X, Unbound)
        zs == TablesDirectlyRelated(Unbound, X)
        Sub(zx) ==
            IF NotMember(zx[1], P)
            THEN LET deeper == TablesRelatedByPath3(zx[1], ConsPath(zx[2], P))
                 IN [i \in 1..Len(deeper) |-> <<zx[2], deeper[i][2]>>]
            ELSE <<>>
    IN base \o Concat([i \in 1..Len(zs) |-> Sub(zs[i])])

\* tablesRelatedByPath(X, Y) :- tablesRelatedByPath(X, Y, [])
TablesRelatedByPath(X, Y) ==
    LET Hit(pair) == Matches(Y, pair[2])
    IN SelectSeq(TablesRelatedByPath3(X, <<>>), Hit)

\* ---------------------------------------------------------- the other rules

\* What a goal gives the caller of the engine: the solutions found, in order,
\* and whether the enumeration ended in an error the engine raised.
Answer(s, e) == [sols |-> s, err |-> e]

\* The answers of the alternatives of a goal, tried in order: an error ends
\* the enumeration.
RECURSIVE InOrder(_)
InOrder(answers) ==
    IF answers = <<>> THEN Answer(<<>>, FALSE)
    ELSE IF Head(answers).err THEN Head(answers)
    ELSE LET rest == InOrder(Tail(answers))
         IN Answer(Head(answers).sols \o rest.sols, rest.err)

Copies(x, n) == [i \in 1..n |-> x]

RECURSIVE Sum(_)
Sum(ns) == IF ns = <<>> THEN 0 ELSE Head(ns) + Sum(Tail(ns))

\* The facts of predicate p whose first argument matches a, in clause order.
FactsOf(p, a) ==
    LET Hit(f) == f.pred = p /\ Matches(a, f.args[1])
    IN SelectSeq(kb, Hit)

\* Mutant of AttributesRelatedByPath: the first clause with T2 for its second
\* T1, so that it holds of any two attributes.
AttributesRelatedAnyTables(X, Y) ==
    LET xs == FactsOf("attribute", X)
        ys == FactsOf("attribute", Y)
        ByPath(i) ==
            Sum([j \in 1..Len(ys) |->
                    Len(TablesRelatedByPath(xs[i].args[2], ys[j].args[2]))])
    IN Len(xs) * Len(ys) + Sum([i \in 1..Len(xs) |-> ByPath(i)])

\* attributesRelatedByPath(X, Y) :- attribute(X, T1), attribute(Y, T1).
\* attributesRelatedByPath(X, Y) :- attribute(X, T1), attribute(Y, T2),
\*     tablesRelatedByPath(T1, T2).
\* The number of solutions of a call with X and Y bound.
AttributesRelatedByPath(X, Y) ==
    LET xs == FactsOf("attribute", X)
        ys == FactsOf("attribute", Y)
        Same(i) == Len(SelectSeq(ys, LAMBDA f : f.args[2] = xs[i].args[2]))
        ByPath(i) ==
            Sum([j \in 1..Len(ys) |->
                    Len(TablesRelatedByPath(xs[i].args[2], ys[j].args[2]))])
    IN Sum([i \in 1..Len(xs) |-> Same(i)]) + Sum([i \in 1..Len(xs) |-> ByPath(i)])

\* isNumeric(X) :- dataType(X, INTEGER).
\* isNumeric(X) :- dataType(X, BIGINT).
\* isNumeric(X) :- dataType(X, NUMERIC).
\* INTEGER, BIGINT and NUMERIC start with a capital: they are variables, and
\* each clause holds once for every dataType fact of X, whatever its kind.
\* The number of solutions of a call with X bound.
IsNumeric(X) ==
    LET AnyKind(f) == TRUE
        clause == Len(SelectSeq(FactsOf("dataType", X), AnyKind))
    IN clause + clause + clause

\* The attributes E with attribute(E, Tab), dataType(E, time): one solution
\* for every pair of such facts.
TimeMarkers(Tab) ==
    LET on == SelectSeq(Facts("attribute"), LAMBDA f : f.args[2] = Tab)
        Timed(i) ==
            Len(SelectSeq(FactsOf("dataType", on[i].args[1]), LAMBDA f : f.args[2] = "time"))
    IN Sum([i \in 1..Len(on) |-> Timed(i)])

\* variesWithTime(T, O) :- attribute(O, OTable), attributesRelatedByPath(T, O),
\*     attribute(E, OTable), dataType(E, time), attribute(E2, TTable),
\*     attribute(T, TTable), dataType(E2, time).
\* The number of solutions of a call with T and O bound.
VariesWithTime(T, O) ==
    LET os == FactsOf("attribute", O)
        ts == FactsOf("attribute", T)
        \* attribute(E2, TTable), attribute(T, TTable), dataType(E2, time)
        treatSide == Sum([i \in 1..Len(ts) |-> TimeMarkers(ts[i].args[2])])
    IN Sum([i \in 1..Len(os) |->
            AttributesRelatedByPath(T, O) * TimeMarkers(os[i].args[2]) * treatSide])

\* The bounds the rules hold a treatment to.
MaxTreatLevels == 30

MinRecordsPerLevel == 20

MinRotatedLevels == 3

\* A / B of the engine: the quotient as a fraction, an evaluation error
\* (zero_divisor) when B is 0.
Divide(a, b) == [num |-> a, den |-> b, evaluation_error |-> (b = 0)]

\* Mutant of Exceeds: >= for >.
ExceedsOrEquals(q, n) == q.num >= n * q.den

\* Q > N for a quotient Q of naturals with a positive denominator.
Exceeds(q, n) == q.num > n * q.den

\* levels(T, TreatLevels), TreatLevels < 30, OutRecords / TreatLevels > 20,
\* T \= O: the end of suitableAsTreatment's body, for one binding of
\* OutRecords. T is bound or Unbound.
TreatmentLevels(T, O, OutRecords) ==
    LET lv == FactsOf("levels", T)
        One(f) ==
            IF ~(f.args[2] < MaxTreatLevels) THEN Answer(<<>>, FALSE)
            ELSE IF Divide(OutRecords, f.args[2]).evaluation_error
            THEN Answer(<<>>, TRUE)
            ELSE IF Exceeds(Divide(OutRecords, f.args[2]), MinRecordsPerLevel)
                    /\ f.args[1] # O
            THEN Answer(<<f.args[1]>>, FALSE)
            ELSE Answer(<<>>, FALSE)
    IN InOrder([i \in 1..Len(lv) |-> One(lv[i])])

\* suitableAsTreatment(T, O) :- attribute(O, T1), recordCount(T1, OutRecords),
\*     isNumeric(O), levels(T, TreatLevels), TreatLevels < 30,
\*     OutRecords / TreatLevels > 20, T \= O.
\* The treatments T of a call with O bound and T bound or Unbound.
SuitableAsTreatment(T, O) ==
    LET os == FactsOf("attribute", O)
        PerTable(f) ==
            LET rc == FactsOf("recordCount", f.args[2])
                PerCount(r) ==
                    InOrder(Copies(TreatmentLevels(T, O, r.args[2]), IsNumeric(O)))
            IN InOrder([j \in 1..Len(rc) |-> PerCount(rc[j])])
    IN InOrder([i \in 1..Len(os) |-> PerTable(os[i])])

\* Each solution of an answer, repeated once for every solution of the goals
\* that follow it in the body (N(x) of them).
Then(found, N(_)) ==
    Answer(Concat([i \in 1..Len(found.sols) |->
                      Copies(found.sols[i], N(found.sols[i]))]),
           found.err)

\* nonequivControlGroup(Out, Treat) :- suitableAsTreatment(Treat, Out),
\*     variesWithTime(Treat, Out).
NonequivControlGroup(Out, Treat) ==
    LET Varies(t) == VariesWithTime(t, Out)
    IN Then(SuitableAsTreatment(Treat, Out), Varies)

\* levels(T, TreatLevels), TreatLevels > 3: T is not Treat but a variable of
\* its own, so this holds once for every attribute with more than 3 levels.
RotatedLevels ==
    Len(SelectSeq(Facts("levels"), LAMBDA f : f.args[2] > MinRotatedLevels))

\* counterbalancedDesign(Out, Treat) :- suitableAsTreatment(Treat, Out),
\*     variesWithTime(Treat, Out), levels(T, TreatLevels), TreatLevels > 3.
CounterbalancedDesign(Out, Treat) ==
    LET Rotations(t) == VariesWithTime(t, Out) * RotatedLevels
    IN Then(SuitableAsTreatment(Treat, Out), Rotations)

\* qed(Out, Treat) :- nonequivControlGroup(Out, Treat).
Qed(Out, Treat) == NonequivControlGroup(Out, Treat)

\* ------------------------------------------------- from the schema to facts

\* The parts of a variable each specification leaves alone.
IdlePath == queryX = Unbound /\ stack = <<>> /\ sols = <<>> /\ maxP = 0

IdleRules == goal = <<>> /\ answer = <<>>

IdleDerive == ti = 0 /\ ci = 0 /\ fi = 0

IdleReport ==
    /\ engine = <<>>
    /\ raises = FALSE
    /\ query_string = ""
    /\ pending = <<>>
    /\ consumed = <<>>
    /\ seen = {}
    /\ unique = <<>>
    /\ lists = <<>>
    /\ printed = <<>>
    /\ issued = <<>>

\* name.replace(".", "_"), for a name given as its parts between the dots.
RECURSIVE ToIdentifier(_)
ToIdentifier(name) ==
    IF Len(name) = 1 THEN name[1]
    ELSE name[1] \o "_" \o ToIdentifier(Tail(name))

\* The declared types the model's columns have, and the ones that start with
\* VARCHAR and with TIMESTAMP.
TypeNames == {"INTEGER", "BIGINT", "NUMERIC", "VARCHAR(255)", "TIMESTAMP", "JSONB"}

StartsWithVarchar == {"VARCHAR(255)"}

StartsWithTimestamp == {"TIMESTAMP"}

ConvertType(typename) ==
    IF typename \in {"INTEGER", "BIGINT", "NUMERIC"} THEN "numeric"
    ELSE IF typename \in StartsWithVarchar THEN "string"
    ELSE IF typename \in StartsWithTimestamp THEN "time"
    ELSE "ValueError"

\* convert_table: num_records is the table's row count.
ConvertTable(t) ==
    <<Fact("table", <<ToIdentifier(<<t.name>>)>>),
      Fact("recordCount", <<ToIdentifier(<<t.name>>), t.count>>)>>

\* convert_attribute, where convert_type returns: num_distinct is the count
\* of the column's distinct values.
ConvertAttribute(t, col) ==
    LET attr_label == ToIdentifier(<<t.name, col.name>>)
    IN <<Fact("attribute", <<attr_label, t.name>>),
         Fact("dataType", <<attr_label, ConvertType(col.type)>>),
         Fact("levels", <<attr_label, col.distinct>>)>>

ConvertPk(t, col) ==
    Fact("primaryKey", <<ToIdentifier(<<t.name, col.name>>), t.name>>)

\* The facts convert_fk has built when it reaches the division.
ForeignKeyRules(t, col, fk) ==
    <<Fact("related", <<fk.table, t.name, fk.name>>),
      Fact("cardinality", <<Unbound, Unbound, fk.name>>),
      Fact("key", <<ToIdentifier(<<fk.table, fk.column>>), fk.name>>),
      Fact("key", <<ToIdentifier(<<t.name, col.name>>), fk.name>>)>>

\* convert_fk, where the division returns: total_rows / float(num_distinct_ref)
\* as a fraction.
ConvertFk(t, col, fk) ==
    Append(ForeignKeyRules(t, col, fk),
           Fact("averageManySize", <<fk.name, [num |-> t.count, den |-> fk.refs]>>))

\* total_rows / float(num_distinct_ref) raises ZeroDivisionError.
DivisionRaises(fk) == fk.refs = 0

\* build_schema_rules on a database where nothing raises: the facts of every
\* table, then of each of its columns, its primary key and its foreign keys.
ColumnFacts(t, col) ==
    ConvertAttribute(t, col)
        \o (IF col.primary_key THEN <<ConvertPk(t, col)>> ELSE <<>>)
        \o Concat([k \in 1..Len(col.foreign_keys) |-> ConvertFk(t, col, col.foreign_keys[k])])

BuildSchemaRules(d) ==
    Concat([i \in 1..Len(d) |->
        ConvertTable(d[i])
            \o Concat([j \in 1..Len(d[i].columns) |-> ColumnFacts(d[i], d[i].columns[j])])])

\* ------------------------------------------- the engine on tablesRelatedByPath

Max(a, b) == IF a >= b THEN a ELSE b

\* A call tablesRelatedByPath(X, Y, P) of the engine: the path list P, the
\* solutions of the first clause not yet reported (base), the solutions
\* <<Z, X>> of tablesDirectlyRelated(Z, X) not yet tried by the second clause
\* (alts), and the binding of the query's X this call works for (root; Unbound
\* in the call of the query itself while X is still free).
Frame(X, P, root) ==
    [P |-> P,
     base |-> TablesDirectlyRelated(X, Unbound),
     alts |-> TablesDirectlyRelated(Unbound, X),
     root |-> root]

Top == stack[Len(stack)]

ReplaceTop(f) == [stack EXCEPT ![Len(stack)] = f]

\* tablesRelatedByPath(X, Y) :- tablesRelatedByPath(X, Y, []): the query opens
\* the first call with the empty path list.
CallQuery ==
    /\ pc = "query"
    /\ stack' = <<Frame(queryX, <<>>, queryX)>>
    /\ pc' = "running"
    /\ UNCHANGED <<kb, queryX, sols, maxP, db, exception, ruleVars, deriveVars, reportVars>>

\* First clause: one more solution of tablesDirectlyRelated(X, Y) is a
\* solution of the call, and so of the query.
ReportSolution ==
    /\ pc = "running"
    /\ Top.base # <<>>
    /\ LET xy == Head(Top.base)
           x == IF Top.root = Unbound THEN xy[1] ELSE Top.root
       IN sols' = Append(sols, <<x, xy[2]>>)
    /\ stack' = ReplaceTop([Top EXCEPT !.base = Tail(Top.base)])
    /\ UNCHANGED <<kb, pc, queryX, maxP, db, exception, ruleVars, deriveVars, reportVars>>

\* Second clause, Z not in P: the recursive call tablesRelatedByPath(Z, Y,
\* [X|P]). The engine's stack is finite: a call beyond StackLimit frames is a
\* resource error that ends the query.
RecursiveCall ==
    /\ pc = "running"
    /\ Top.base = <<>>
    /\ Top.alts # <<>>
    /\ LET zx == Head(Top.alts)
           rest == ReplaceTop([Top EXCEPT !.alts = Tail(Top.alts)])
           path == ConsPath(zx[2], Top.P)
           root == IF Top.root = Unbound THEN zx[2] ELSE Top.root
       IN /\ NotMember(zx[1], Top.P)
          /\ IF Len(stack) < StackLimit
             THEN /\ stack' = Append(rest, Frame(zx[1], path, root))
                  /\ maxP' = Max(maxP, Len(path))
                  /\ pc' = pc
             ELSE /\ stack' = rest
                  /\ maxP' = maxP
                  /\ pc' = "resource_error"
    /\ UNCHANGED <<kb, queryX, sols, db, exception, ruleVars, deriveVars, reportVars>>

\* Second clause, Z in P: \+ member(Z, P) fails and the engine backtracks to
\* the next solution of tablesDirectlyRelated(Z, X).
GuardFails ==
    /\ pc = "running"
    /\ Top.base = <<>>
    /\ Top.alts # <<>>
    /\ ~NotMember(Head(Top.alts)[1], Top.P)
    /\ stack' = ReplaceTop([Top EXCEPT !.alts = Tail(Top.alts)])
    /\ UNCHANGED <<kb, pc, queryX, sols, maxP, db, exception, ruleVars, deriveVars, reportVars>>

\* Both clauses are exhausted: the call fails back into its caller; the query
\* is over when the first call is.
CallExhausted ==
    /\ pc = "running"
    /\ Top.base = <<>>
    /\ Top.alts = <<>>
    /\ stack' = SubSeq(stack, 1, Len(stack) - 1)
    /\ pc' = IF Len(stack) = 1 THEN "done" ELSE pc
    /\ UNCHANGED <<kb, queryX, sols, maxP, db, exception, ruleVars, deriveVars, reportVars>>

\* The schemas of SpecPath: tables t1..tn and up to MaxRelated foreign keys
\* among them, at most one from a table to a table, in any direction,
\* self-references and cycles included. The related facts come in the order
\* build_schema_rules registers them: by the table that holds the key.
TableFacts(n) == [i \in 1..n |-> Fact("table", <<TableName(i)>>)]

\* The pairs <<one, many>> over n tables, by many, then by one.
PairsInOrder(n) ==
    [k \in 1..(n * n) |-> <<((k - 1) % n) + 1, ((k - 1) \div n) + 1>>]

RelatedFacts(edges) ==
    [i \in 1..Len(edges) |->
        Fact("related", <<TableName(edges[i][1]), TableName(edges[i][2]), RelName(i)>>)]

InitPath ==
    /\ \E n \in 1..NumTables :
         /\ \E keys \in SUBSET ((1..n) \X (1..n)) :
              /\ Cardinality(keys) <= MaxRelated
              /\ kb = TableFacts(n)
                        \o RelatedFacts(SelectSeq(PairsInOrder(n), LAMBDA e : e \in keys))
         /\ queryX \in {TableName(i) : i \in 1..n} \cup {Unbound}
    /\ pc = "query"
    /\ stack = <<>>
    /\ sols = <<>>
    /\ maxP = 0
    /\ db = <<>>
    /\ exception = ""
    /\ IdleRules
    /\ IdleDerive
    /\ IdleReport

NextPath ==
    \/ CallQuery
    \/ ReportSolution
    \/ RecursiveCall
    \/ GuardFails
    \/ CallExhausted

\* The engine runs a query to its end: it never stops while a step is left.
SpecPath == InitPath /\ [][NextPath]_vars /\ WF_vars(NextPath)

\* ------------------------------------------- the queries over a derived kb

\* The databases of SpecRules: tables t1 and t2; NumColumns columns c1.., each
\* in one of the tables (c1, the outcome, in t1), of a numeric, string or time
\* type, with 0, 3, 4 or 30 distinct values; 80 or 700 rows a table; and, or
\* not, a foreign key r1 from the second column to t1.c1.
ColumnName(k) == <<"c1", "c2", "c3", "c4", "c5">>[k]

RuleTypes == {"INTEGER", "VARCHAR(255)", "TIMESTAMP"}

DistinctCounts == {0, 3, 4, 30}

RowCounts == {80, 700}

TwoTables == {1, 2}

Column(k, type, distinct, first, fks) ==
    [name |-> ColumnName(k), type |-> type, distinct |-> distinct,
     primary_key |-> first, foreign_keys |-> fks]

ForeignKey(name, table, column, refs) ==
    [name |-> name, table |-> table, column |-> column, refs |-> refs]

\* The columns of table i, in the order of their numbers.
\* keys: the foreign keys of the second column.
ColumnsOf(i, owner, type, distinct, keys) ==
    LET mine == SelectSeq([k \in 1..NumColumns |-> k], LAMBDA k : owner[k] = i)
    IN [j \in 1..Len(mine) |->
          Column(mine[j], type[mine[j]], distinct[mine[j]], j = 1,
                 IF mine[j] = 2 THEN keys ELSE <<>>)]

Schema(owner, type, distinct, count, keys) ==
    [i \in 1..Cardinality(TwoTables) |->
        [name |-> TableName(i), count |-> count[i],
         columns |-> ColumnsOf(i, owner, type, distinct, keys)]]

\* The foreign keys r1.. to t1.c1, the k-th with refs[k] distinct referenced
\* keys among the joined rows.
KeysToOutcome(refs) ==
    [k \in 1..Len(refs) |-> ForeignKey(RelName(k), TableName(1), ColumnName(1), refs[k])]

Outcome == ToIdentifier(<<TableName(1), ColumnName(1)>>)

Attributes == {f.args[1] : f \in Range(Facts("attribute"))}

InitRules ==
    /\ \E owner \in [1..NumColumns -> TwoTables],
          type \in [1..NumColumns -> RuleTypes],
          distinct \in [1..NumColumns -> DistinctCounts],
          count \in [TwoTables -> RowCounts],
          keys \in {<<>>, KeysToOutcome(<<2>>)} :
         /\ owner[1] = 1
         /\ db = Schema(owner, type, distinct, count, keys)
    /\ kb = BuildSchemaRules(db)
    /\ pc = "asserted"
    /\ exception = ""
    /\ goal = <<>>
    /\ answer = <<>>
    /\ IdlePath
    /\ IdleDerive
    /\ IdleReport

\* prolog.query("nonequivControlGroup(<outcome>, T)")
QueryNonequivControlGroup ==
    /\ pc = "asserted"
    /\ goal' = <<"nonequivControlGroup", Outcome, Unbound>>
    /\ answer' = NonequivControlGroup(Outcome, Unbound)
    /\ pc' = "answered"
    /\ UNCHANGED <<kb, db, exception, pathVars, deriveVars, reportVars>>

\* prolog.query("counterbalancedDesign(<outcome>, T)")
QueryCounterbalancedDesign ==
    /\ pc = "asserted"
    /\ goal' = <<"counterbalancedDesign", Outcome, Unbound>>
    /\ answer' = CounterbalancedDesign(Outcome, Unbound)
    /\ pc' = "answered"
    /\ UNCHANGED <<kb, db, exception, pathVars, deriveVars, reportVars>>

\* The goals report_on_qeds never gives the engine itself, asked of it
\* directly: suitableAsTreatment(T, <outcome>) and qed(<outcome>, T).
QuerySuitableAsTreatment ==
    /\ pc = "asserted"
    /\ goal' = <<"suitableAsTreatment", Unbound, Outcome>>
    /\ answer' = SuitableAsTreatment(Unbound, Outcome)
    /\ pc' = "answered"
    /\ UNCHANGED <<kb, db, exception, pathVars, deriveVars, reportVars>>

QueryQed ==
    /\ pc = "asserted"
    /\ goal' = <<"qed", Outcome, Unbound>>
    /\ answer' = Qed(Outcome, Unbound)
    /\ pc' = "answered"
    /\ UNCHANGED <<kb, db, exception, pathVars, deriveVars, reportVars>>

NextRules ==
    \/ QueryNonequivControlGroup
    \/ QueryCounterbalancedDesign
    \/ QuerySuitableAsTreatment
    \/ QueryQed

SpecRules == InitRules /\ [][NextRules]_vars

\* ------------------------------------------------- claims C3, C4, C5, C6, C10

HasFact(p, a) == Fact(p, a) \in Range(kb)

Answered(g) == pc = "answered" /\ goal[1] = g

\* The facts and rules are asserted and no query has been put yet: what the
\* rules hold of is read off the kb in these states, once for every kb.
Asserted == pc = "asserted"

\* suitableAsTreatment(T, O) holds: the call with both bound has a solution.
SuitableHolds(T, O) == SuitableAsTreatment(T, O).sols # <<>>

TablesOf(a) == {f.args[2] : f \in Range(FactsOf("attribute", a))}

SameTable(a, b) == TablesOf(a) \cap TablesOf(b) # {}

\* C3: suitableAsTreatment(T, O) holds only of a numeric T, one with the fact
\* dataType(T, numeric); never of a T whose kind is string or time.
C3_TreatmentIsNumeric ==
    Answered("suitableAsTreatment") =>
        /\ \A t \in Range(answer.sols) : HasFact("dataType", <<t, "numeric">>)
        /\ \A T \in Attributes, O \in Attributes :
              SuitableHolds(T, O) => HasFact("dataType", <<T, "numeric">>)

\* The level counts of T and the record counts of O's tables that are too
\* many and too few: levels >= 30, records / levels <= 20.
TooManyLevels(T) == \E f \in Range(FactsOf("levels", T)) : f.args[2] >= 30

TooFewRecords(T, O) ==
    \E l \in Range(FactsOf("levels", T)), tab \in TablesOf(O) :
        \E r \in Range(FactsOf("recordCount", tab)) :
            l.args[2] > 0 /\ r.args[2] <= 20 * l.args[2]

\* C4: suitableAsTreatment(T, O) never holds when T = O, nor when
\* levels(T) >= 30, nor when the record count of O's table divided by
\* levels(T) is <= 20.
C4_NeverSelfManyLevelsFewRecords ==
    /\ \A T \in Attributes, O \in Attributes :
          Asserted /\ SuitableHolds(T, O) =>
              T # O /\ ~TooManyLevels(T) /\ ~TooFewRecords(T, O)
    /\ Answered("suitableAsTreatment") =>
          \A t \in Range(answer.sols) :
              t # Outcome /\ ~TooManyLevels(t) /\ ~TooFewRecords(t, Outcome)

\* C4's case: the engine has answered suitableAsTreatment(T, outcome) with a
\* treatment, and has left out an attribute that has 30 levels though records
\* enough for them.
C4_Witness ==
    /\ Answered("suitableAsTreatment")
    /\ answer.sols # <<>>
    /\ ~answer.err
    /\ \E t \in Attributes \ {Outcome} :
          t \notin Range(answer.sols) /\ TooManyLevels(t) /\ ~TooFewRecords(t, Outcome)

\* C5: counterbalancedDesign(Out, Treat) holds only if
\* nonequivControlGroup(Out, Treat) does and Treat itself has more than 3
\* levels; the levels of another attribute do not make it hold.
C5_TreatmentItselfHasOverThreeLevels ==
    Answered("counterbalancedDesign") =>
        \A t \in Range(answer.sols) :
            /\ t \in Range(NonequivControlGroup(Outcome, Unbound).sols)
            /\ \E f \in Range(FactsOf("levels", t)) : f.args[2] > 3

NoForeignKeys == Facts("related") = <<>>

\* C6 as stated: without a related fact, tablesRelatedByPath and every rule
\* that depends on it (attributesRelatedByPath, variesWithTime,
\* nonequivControlGroup, counterbalancedDesign, qed) have no solution.
C6_NoForeignKeysNoSolutions ==
    (NoForeignKeys /\ pc = "answered" /\ goal[1] # "suitableAsTreatment") =>
        /\ answer.sols = <<>>
        /\ TablesRelatedByPath(Unbound, Unbound) = <<>>
        /\ \A X \in Attributes, Y \in Attributes :
              AttributesRelatedByPath(X, Y) = 0 /\ VariesWithTime(X, Y) = 0

\* C6, amended: without a related fact, tablesRelatedByPath has no solution,
\* and the rules that depend on it have none that joins attributes of two
\* tables: every solution of attributesRelatedByPath, variesWithTime,
\* nonequivControlGroup, counterbalancedDesign and qed pairs attributes of one
\* and the same table (the first clause of attributesRelatedByPath).
C6_NoForeignKeysOnlySameTable ==
    NoForeignKeys =>
        /\ Asserted => TablesRelatedByPath(Unbound, Unbound) = <<>>
        /\ \A X \in Attributes, Y \in Attributes :
              /\ Asserted /\ AttributesRelatedByPath(X, Y) > 0 => SameTable(X, Y)
              /\ Asserted /\ VariesWithTime(X, Y) > 0 => SameTable(X, Y)
        /\ (pc = "answered" /\ goal[1] # "suitableAsTreatment") =>
              \A t \in Range(answer.sols) : SameTable(t, Outcome)

\* C6's case: a schema with two populated tables and no foreign key, of which
\* the engine has answered nonequivControlGroup with a treatment.
C6_Witness ==
    /\ NoForeignKeys
    /\ Answered("nonequivControlGroup")
    /\ answer.sols # <<>>
    /\ \E a \in Attributes : ~SameTable(a, Outcome)

\* C10: with record counts and levels >= 0, levels = 0 included, the queries
\* nonequivControlGroup(Outcome, T) and counterbalancedDesign(Outcome, T) end
\* without an arithmetic error: an attribute with no levels is no candidate,
\* and neither ends the query nor hides the other candidates.
C10_ZeroLevelsRaiseNothing ==
    (Answered("nonequivControlGroup") \/ Answered("counterbalancedDesign")) =>
        ~answer.err

\* ------------------------------------------------ main deriving the kb

\* The databases of SpecDerive: the columns in either table, of any declared
\* type (JSONB is none convert_type knows), and up to MaxKeys foreign keys on
\* the second column, each with 0 or 2 distinct referenced keys.
DeriveTypes == {"BIGINT", "VARCHAR(255)", "TIMESTAMP", "JSONB"}

InitDerive ==
    /\ \E owner \in [1..NumColumns -> TwoTables],
          type \in [1..NumColumns -> DeriveTypes],
          refs \in SeqsUpTo({0, 2}, MaxKeys) :
         db = Schema(owner, type, [k \in 1..NumColumns |-> 4],
                     [i \in TwoTables |-> 80], KeysToOutcome(refs))
    /\ kb = <<>>
    /\ pc = "table"
    /\ ti = 1
    /\ ci = 0
    /\ fi = 0
    /\ exception = ""
    /\ IdlePath
    /\ IdleRules
    /\ IdleReport

Table == db[ti]

Col == db[ti].columns[ci]

\* for t in metadata.sorted_tables: for fact in convert_table(session, t):
\*     register_fact(kb, fact)
ConvertTableStep ==
    /\ pc = "table"
    /\ ti <= Len(db)
    /\ kb' = kb \o ConvertTable(Table)
    /\ ci' = 1
    /\ pc' = "attribute"
    /\ UNCHANGED <<db, exception, ti, fi, pathVars, ruleVars, reportVars>>

\* for col in t.columns: the next column of the table, or, after the last,
\* the next table.
NextColumn ==
    /\ pc = "attribute"
    /\ ci > Len(Table.columns)
    /\ ti' = ti + 1
    /\ pc' = "table"
    /\ UNCHANGED <<kb, db, exception, ci, fi, pathVars, ruleVars, reportVars>>

\* for fact in convert_attribute(session, t, col): register_fact(kb, fact).
\* convert_type raises ValueError on a type it does not know, before any
\* fact of the column is registered; nothing catches it.
ConvertAttributeStep ==
    /\ pc = "attribute"
    /\ ci <= Len(Table.columns)
    /\ IF ConvertType(Col.type) = "ValueError"
       THEN /\ exception' = "ValueError"
            /\ pc' = "aborted"
            /\ kb' = kb
       ELSE /\ exception' = exception
            /\ pc' = "pk"
            /\ kb' = kb \o ConvertAttribute(Table, Col)
    /\ UNCHANGED <<db, ti, ci, fi, pathVars, ruleVars, reportVars>>

\* if col.primary_key: register_fact(kb, convert_pk(t, col))
ConvertPkStep ==
    /\ pc = "pk"
    /\ kb' = IF Col.primary_key THEN Append(kb, ConvertPk(Table, Col)) ELSE kb
    /\ fi' = 1
    /\ pc' = "fk"
    /\ UNCHANGED <<db, exception, ti, ci, pathVars, ruleVars, reportVars>>

\* for fk in col.foreign_keys: for fact in convert_fk(session, t, fk):
\*     register_fact(kb, fact)
\* convert_fk divides by float(num_distinct_ref) before it returns its rules:
\* on 0 the division raises ZeroDivisionError, none of the key's facts is
\* registered, and nothing catches the exception.
ConvertFkStep ==
    /\ pc = "fk"
    /\ fi <= Len(Col.foreign_keys)
    /\ IF DivisionRaises(Col.foreign_keys[fi])
       THEN /\ exception' = "ZeroDivisionError"
            /\ pc' = "aborted"
            /\ kb' = kb
            /\ fi' = fi
       ELSE /\ exception' = exception
            /\ pc' = pc
            /\ kb' = kb \o ConvertFk(Table, Col, Col.foreign_keys[fi])
            /\ fi' = fi + 1
    /\ UNCHANGED <<db, ti, ci, pathVars, ruleVars, reportVars>>

\* The foreign keys of the column are done: on to the next column.
NextForeignKeyDone ==
    /\ pc = "fk"
    /\ fi > Len(Col.foreign_keys)
    /\ ci' = ci + 1
    /\ pc' = "attribute"
    /\ UNCHANGED <<kb, db, exception, ti, fi, pathVars, ruleVars, reportVars>>

\* return kb; rules.extend(register_qeds()); for rule in rules:
\*     print(rule); prolog.assertz(rule)
AssertRules ==
    /\ pc = "table"
    /\ ti > Len(db)
    /\ pc' = "asserted"
    /\ UNCHANGED <<kb, db, exception, deriveVars, pathVars, ruleVars, reportVars>>

\* report_on_qeds(prolog, "movie_gross"): the two queries are put.
ReportOnQeds ==
    /\ pc = "asserted"
    /\ ti > 0
    /\ pc' = "reported"
    /\ UNCHANGED <<kb, db, exception, deriveVars, pathVars, ruleVars, reportVars>>

NextDerive ==
    \/ ConvertTableStep
    \/ NextColumn
    \/ ConvertAttributeStep
    \/ ConvertPkStep
    \/ ConvertFkStep
    \/ NextForeignKeyDone
    \/ AssertRules
    \/ ReportOnQeds

SpecDerive == InitDerive /\ [][NextDerive]_vars

\* ---------------------------------------------------------------- claim C7

\* The foreign keys convert_fk has been called on: those before the place
\* the derivation is at and, once the division has raised, the one it is at.
Attempted(i, j, k) ==
    \/ i < ti
    \/ i = ti /\ j < ci
    \/ i = ti /\ j = ci /\ (pc = "fk" \/ exception = "ZeroDivisionError") /\ k < fi
    \/ i = ti /\ j = ci /\ k = fi /\ exception = "ZeroDivisionError"

KeyPlaces ==
    {p \in (1..Len(db)) \X (1..NumColumns) \X (1..MaxKeys) :
        /\ p[2] <= Len(db[p[1]].columns)
        /\ p[3] <= Len(db[p[1]].columns[p[2]].foreign_keys)}

\* C7: a foreign key whose distinct count of referenced keys is 0 costs only
\* its averageManySize fact: the derivation goes on, the related and key
\* facts of the relationship are emitted (as are the facts of the columns and
\* tables after it), and the run asserts the facts and puts the queries.
C7_ZeroDivisorOnlyOmitsAverage ==
    \A p \in KeyPlaces :
        LET t == db[p[1]]
            col == t.columns[p[2]]
            fk == col.foreign_keys[p[3]]
        IN (Attempted(p[1], p[2], p[3]) /\ fk.refs = 0) =>
              /\ exception = ""
              /\ Range(ForeignKeyRules(t, col, fk)) \subseteq Range(kb)
              /\ \A f \in Range(kb) : ~(f.pred = "averageManySize" /\ f.args[1] = fk.name)

\* Where nothing raises, the derivation step by step is BuildSchemaRules.
DeriveIsBuildSchemaRules ==
    (pc \in {"asserted", "reported"} /\ ti > 0) => kb = BuildSchemaRules(db)

\* ------------------------------------------------------ get_unique_results

\* A solution of the engine is a dict: the pairs <<variable, value>> in the
\* order the engine bound them.
DictsOver(variables, values) ==
    {d \in UNION {[1..Cardinality(variables) -> variables \X values]} :
        \A i, j \in DOMAIN d : i # j => d[i][1] # d[j][1]}

\* elt[variable]
Lookup(elt, variable) ==
    LET i == CHOOSE i \in DOMAIN elt : elt[i][1] = variable
    IN elt[i][2]

\* Mutant of Frozendict: a key that keeps the order of the items, like
\* tuple(elt.items()).
ItemsTuple(elt) == elt

\* frozendict(elt): the items of elt, hashed and compared whatever their
\* order.
Frozendict(elt) == {elt[i] : i \in DOMAIN elt}

GeneratorRuns == pc \in {"nonequiv", "counterbalanced", "first", "second"}

\* for elt in prolog.query(...): frozenelt in seen: continue
SkipSeen ==
    /\ GeneratorRuns
    /\ pending # <<>>
    /\ Frozendict(Head(pending)) \in seen
    /\ pending' = Tail(pending)
    /\ consumed' = Append(consumed, Head(pending))
    /\ UNCHANGED <<kb, pc, db, exception, pathVars, ruleVars, deriveVars,
                   engine, raises, query_string, seen, unique, lists, printed, issued>>

\* for elt in prolog.query(...): else: seen.add(frozenelt); yield elt, which
\* list() appends to the list it builds.
YieldNew ==
    /\ GeneratorRuns
    /\ pending # <<>>
    /\ Frozendict(Head(pending)) \notin seen
    /\ seen' = seen \cup {Frozendict(Head(pending))}
    /\ unique' = Append(unique, Head(pending))
    /\ pending' = Tail(pending)
    /\ consumed' = Append(consumed, Head(pending))
    /\ UNCHANGED <<kb, pc, db, exception, pathVars, ruleVars, deriveVars,
                   engine, raises, query_string, lists, printed, issued>>

\* get_unique_results(prolog, query_string) is called and list() starts to
\* draw from it: seen = set(), and the engine's solutions are to come.
Open(q, solutions) ==
    /\ query_string' = q
    /\ issued' = Append(issued, q)
    /\ pending' = solutions
    /\ consumed' = <<>>
    /\ seen' = {}
    /\ unique' = <<>>

\* ------------------------------------------------------------ report_on_qeds

\* The engine's dicts for a query with the one variable T.
TreatmentDicts == DictsOver({"T"}, {"t1_c2", "t1_c3"})

InitReport ==
    /\ engine \in [{"nonequivControlGroup", "counterbalancedDesign"} ->
                     {Answer(s, e) : s \in SeqsUpTo(TreatmentDicts, MaxSolutions),
                                     e \in BOOLEAN}]
    /\ raises \in BOOLEAN
    /\ pc = "report"
    /\ kb = <<>>
    /\ db = <<>>
    /\ exception = ""
    /\ query_string = ""
    /\ pending = <<>>
    /\ consumed = <<>>
    /\ seen = {}
    /\ unique = <<>>
    /\ lists = <<>>
    /\ printed = <<>>
    /\ issued = <<>>
    /\ IdlePath
    /\ IdleRules
    /\ IdleDerive

\* nonequiv_control = list(get_unique_results(prolog,
\*     "nonequivControlGroup({0}, T)".format(outcome)))
QueryNonequiv ==
    /\ pc = "report"
    /\ Open("nonequivControlGroup", engine["nonequivControlGroup"].sols)
    /\ pc' = "nonequiv"
    /\ UNCHANGED <<kb, db, exception, pathVars, ruleVars, deriveVars,
                   engine, raises, lists, printed>>

\* if results: print(DESC); print("Candidate treatments ..."); for elt in
\* results: print("\t{0}".format(elt["T"]))
Section(results) ==
    IF results # <<>>
    THEN <<"description", "Candidate treatments for outcome">>
            \o [i \in 1..Len(results) |-> Lookup(results[i], "T")]
    ELSE <<>>

\* The engine has no more solutions and raised nothing that reaches the
\* caller (an error it only printed ended its enumeration): list() returns,
\* the section of the query is printed.
ListReturns ==
    /\ pc \in {"nonequiv", "counterbalanced"}
    /\ pending = <<>>
    /\ ~(engine[query_string].err /\ raises)
    /\ lists' = Append(lists, unique)
    /\ printed' = printed \o Section(unique)
                     \o (IF pc = "nonequiv" THEN <<"\n">> ELSE <<>>)
    /\ pc' = IF pc = "nonequiv" THEN "between" ELSE "reported"
    /\ UNCHANGED <<kb, db, exception, pathVars, ruleVars, deriveVars,
                   engine, raises, query_string, pending, consumed, seen, unique, issued>>

\* The engine's error reaches prolog.query's caller as an exception: it
\* leaves the generator, list() and report_on_qeds, none of which catches it.
QueryRaises ==
    /\ pc \in {"nonequiv", "counterbalanced"}
    /\ pending = <<>>
    /\ engine[query_string].err /\ raises
    /\ exception' = "PrologError"
    /\ pc' = "aborted"
    /\ UNCHANGED <<kb, db, pathVars, ruleVars, deriveVars,
                   engine, raises, query_string, pending, consumed, seen, unique,
                   lists, printed, issued>>

\* counterbalanced = list(get_unique_results(prolog,
\*     "counterbalancedDesign({0}, T)".format(outcome)))
QueryCounterbalanced ==
    /\ pc = "between"
    /\ Open("counterbalancedDesign", engine["counterbalancedDesign"].sols)
    /\ pc' = "counterbalanced"
    /\ UNCHANGED <<kb, db, exception, pathVars, ruleVars, deriveVars,
                   engine, raises, lists, printed>>

NextReport ==
    \/ QueryNonequiv
    \/ SkipSeen
    \/ YieldNew
    \/ ListReturns
    \/ QueryRaises
    \/ QueryCounterbalanced

SpecReport == InitReport /\ [][NextReport]_vars

\* C8: an error of the engine in one of the two queries of report_on_qeds is
\* reported and does not keep the other from running: when the
\* nonequivControlGroup query fails, the counterbalancedDesign query is still
\* put and its results reported.
C8_OtherQueryStillRuns ==
    (engine["nonequivControlGroup"].err /\ pc \in {"aborted", "reported"}) =>
        /\ "counterbalancedDesign" \in Range(issued)
        /\ pc = "reported"

\* ----------------------------------------- get_unique_results, run and rerun

\* The engine's dicts for a query with two variables, bound in either order.
PairDicts == DictsOver({"T", "O"}, {"t1_c1", "t1_c2"})

Reorderings(s) ==
    {[i \in 1..Len(s) |-> s[p[i]]] :
        p \in {q \in [1..Len(s) -> 1..Len(s)] : \A i, j \in 1..Len(s) : i # j => q[i] # q[j]}}

InitUnique ==
    /\ engine \in [{"query"} -> {Answer(s, FALSE) : s \in SeqsUpTo(PairDicts, MaxSolutions)}]
    /\ raises = FALSE
    /\ pc = "call"
    /\ kb = <<>>
    /\ db = <<>>
    /\ exception = ""
    /\ query_string = ""
    /\ pending = <<>>
    /\ consumed = <<>>
    /\ seen = {}
    /\ unique = <<>>
    /\ lists = <<>>
    /\ printed = <<>>
    /\ issued = <<>>
    /\ IdlePath
    /\ IdleRules
    /\ IdleDerive

\* list(get_unique_results(prolog, query_string))
CallUnique ==
    /\ pc = "call"
    /\ Open("query", engine["query"].sols)
    /\ pc' = "first"
    /\ UNCHANGED <<kb, db, exception, pathVars, ruleVars, deriveVars,
                   engine, raises, lists, printed>>

\* The same query once more: the engine finds the same solutions, in an order
\* of its own.
CallUniqueAgain ==
    /\ pc = "first"
    /\ pending = <<>>
    /\ \E again \in Reorderings(engine["query"].sols) :
          Open("query", again)
    /\ lists' = Append(lists, unique)
    /\ pc' = "second"
    /\ UNCHANGED <<kb, db, exception, pathVars, ruleVars, deriveVars,
                   engine, raises, printed>>

UniqueReturns ==
    /\ pc = "second"
    /\ pending = <<>>
    /\ lists' = Append(lists, unique)
    /\ pc' = "returned"
    /\ UNCHANGED <<kb, db, exception, pathVars, ruleVars, deriveVars,
                   engine, raises, query_string, pending, consumed, seen, unique,
                   printed, issued>>

NextUnique ==
    \/ CallUnique
    \/ SkipSeen
    \/ YieldNew
    \/ CallUniqueAgain
    \/ UniqueReturns

SpecUnique == InitUnique /\ [][NextUnique]_vars

\* ---------------------------------------------------------------- claim C9

\* Two bindings are equal: they bind the same variables, each to equal values.
SameBinding(d, e) ==
    /\ {d[i][1] : i \in DOMAIN d} = {e[i][1] : i \in DOMAIN e}
    /\ \A i \in DOMAIN d : Lookup(e, d[i][1]) = d[i][2]

\* The solutions of s that equal none before them, in their order.
FirstOccurrences(s) ==
    LET First(i) == \A j \in 1..(i - 1) : ~SameBinding(s[j], s[i])
        at == SelectSeq([i \in 1..Len(s) |-> i], First)
    IN [k \in 1..Len(at) |-> s[at[k]]]

SameBindings(s, t) ==
    /\ \A i \in DOMAIN s : \E j \in DOMAIN t : SameBinding(s[i], t[j])
    /\ \A j \in DOMAIN t : \E i \in DOMAIN s : SameBinding(s[i], t[j])

\* C9: of the solutions the engine hands over, get_unique_results yields each
\* distinct binding once, where it first occurs; so the bindings yielded are
\* the bindings handed over, and the same query run again, its solutions in
\* another order, yields the same set of bindings.
C9_EachBindingOnceAtFirstOccurrence ==
    /\ unique = FirstOccurrences(consumed)
    /\ SameBindings(unique, consumed)
    /\ pc = "returned" => SameBindings(lists[1], lists[2])

\* C9's case: both runs are over; the engine's solutions held the same
\* binding twice, its variables in two orders, and came in another order the
\* second time.
C9_Witness ==
    /\ pc = "returned"
    /\ Len(lists[1]) >= 2
    /\ Len(lists[1]) < Len(engine["query"].sols)
    /\ \E i, j \in DOMAIN consumed :
          i # j /\ consumed[i] # consumed[j] /\ SameBinding(consumed[i], consumed[j])
    /\ consumed # engine["query"].sols

\* ------------------------------------------------------------ claims C1, C2

Tables == {f.args[1] : f \in Range(Facts("table"))}

PathDone == pc = "done"

\* C1 as stated: whatever the related facts (cycles and self-referencing
\* tables included), the evaluation of tablesRelatedByPath(X, Y) ends, and no
\* call holds a path list P with more entries than there are tables.
C1_PathNoLongerThanTables == maxP <= Cardinality(Tables)

\* C1, amended: the evaluation of tablesRelatedByPath(X, Y) always ends (after
\* finitely many solutions, without exhausting the stack), and no call holds a
\* path list P with more than 2 * tables - 1 entries: a self-referencing table
\* is entered twice in a row before the guard sees it in P.
C1_TerminatesWithinTwiceTables ==
    <>(PathDone /\ maxP <= 2 * Cardinality(Tables) - 1)

\* C1's case: a query over a graph with a self-referencing table and a cycle
\* has ended, having gone at least two calls deep.
C1_Witness ==
    /\ PathDone
    /\ maxP >= 2
    /\ \E f \in Range(Facts("related")) : f.args[1] = f.args[2]
    /\ \E f \in Range(Facts("related")) : f.args[1] # f.args[2]

\* The undirected foreign-key graph and its walks.
Linked(x, y) ==
    \E f \in Range(Facts("related")) :
        \/ f.args[1] = x /\ f.args[2] = y
        \/ f.args[1] = y /\ f.args[2] = x

RECURSIVE ReachFrom(_, _)
ReachFrom(seenSet, frontier) ==
    LET next == {y \in Tables : \E x \in frontier : Linked(x, y)} \ seenSet
    IN IF next = {} THEN seenSet ELSE ReachFrom(seenSet \cup next, next)

\* The tables a walk of one or more links leads to from x.
WalkFrom(x) == ReachFrom({y \in Tables : Linked(x, y)}, {y \in Tables : Linked(x, y)})

Asked == {<<x, y>> \in Tables \X Tables : Matches(queryX, x)}

\* C2 as stated: the pairs with a solution are exactly the pairs joined by a
\* path that repeats no table (so never a pair (X, X)).
C2_ExactlyAcyclicPairs ==
    PathDone => Range(sols) = {xy \in Asked : xy[1] # xy[2] /\ xy[2] \in WalkFrom(xy[1])}

\* C2, amended: the pairs with a solution are exactly the pairs joined by a
\* walk of one or more links of the undirected foreign-key graph (the
\* transitive closure of tablesDirectlyRelated): the pairs joined by an acyclic
\* path and, besides, (X, X) for every table X that has a relationship.
C2_ExactlyWalkPairs ==
    PathDone => Range(sols) = {xy \in Asked : xy[2] \in WalkFrom(xy[1])}

\* C2's case: a finished query that found a pair two links apart.
C2_Witness ==
    /\ PathDone
    /\ \E xy \in Range(sols) : xy[1] # xy[2] /\ ~Linked(xy[1], xy[2])

\* The engine's enumeration is the function TablesRelatedByPath, which the
\* rules that call tablesRelatedByPath/2 are evaluated with.
EngineIsTablesRelatedByPath ==
    PathDone => sols = TablesRelatedByPath(queryX, Unbound)

=============================================================================
